---- MODULE Spec2Model ----
(***************************************************************************)
(* Queue management service (src/main.py): callers join and leave named   *)
(* queues through two asynchronous request handlers that call stored      *)
(* procedures of the position store, then fetch the summary and fan it    *)
(* out to the live subscribers of the BroadcastManager.                   *)
(*                                                                         *)
(* Scheduling.  increment_queue, decrement_queue and                      *)
(* stream_queues_summary are coroutines of one event loop.  Their store   *)
(* calls are synchronous, the broadcaster lock is never held across a     *)
(* suspension and the subscriber channels are unbounded, so a handler,    *)
(* once started, runs to its return without yielding to another           *)
(* coroutine.  The model keeps the handler's steps apart (store call,     *)
(* summary fetch, fan-out, return), because the store is observable       *)
(* between them, and lets one coroutine at a time take steps: `task` is   *)
(* the handler the event loop is running.                                 *)
(*                                                                         *)
(* The stored procedures add_caller_to_queue, remove_caller_from_queue    *)
(* and get_queue_summary live in the database, not in the Python source;  *)
(* they are modelled from the specification (sections 4.1 and 5).         *)
(***************************************************************************)
EXTENDS Integers, Sequences, FiniteSets, TLC

\* ------------------------------------------------------------------ bounds
NumPhones == 3        \* distinct phone numbers the clients use
MaxRows == 3          \* rows the table holds before clients stop joining
NumChans == 1         \* live-update connections
MaxUndelivered == 1   \* payloads waiting in the channels before clients pause
NumReqs == 3          \* size of a batch of concurrently submitted joins
NotifyPhones == 1     \* phone numbers in use under the notification workload
NotifyChans == 2      \* live-update connections, notification workload
NotifyRoom == 3       \* payloads waiting before clients pause, notification workload

Phones == 1..NumPhones
Queues == {"Sales", "Support"}
QueueOrder == <<"Sales", "Support">>
Chans == 1..NumChans

VARIABLES
    table,        \* the rows of the store's `queue` table
    subscribers,  \* BroadcastManager.subscribers: list of channels
    chan,         \* chan[c]: the payloads waiting in channel c (asyncio.Queue)
    conn,         \* conn[c]: "closed" | "open" | "gone" (client left, server not told yet)
    task,         \* the handler the event loop is running, or Idle
    batch,        \* requests submitted together and their outcomes
    load,         \* the clients' workload: what they submit and when they pause
    gen,          \* gen[c]: where the event_generator of connection c stands
    recv,         \* recv[c]: the payload last yielded to the client of c (observed runs)
    stale         \* a committed change went unpublished since the last fan-out (observed runs)

vars == <<table, subscribers, chan, conn, task, batch, gen, load, recv, stale>>

\* ------------------------------------------------------------------- store
Row(p, q, pos) == [phone_number |-> p, queue_name |-> q, position |-> pos]

QueueRows(tbl, q) == {r \in tbl : r.queue_name = q}

MatchRows(tbl, p, q) == {r \in tbl : r.phone_number = p /\ r.queue_name = q}

occupant_count(tbl, q) == Cardinality(QueueRows(tbl, q))

Positions(tbl, q) == {r.position : r \in QueueRows(tbl, q)}

DuplicateError == "Caller is already in queue"
StoreError == "store unavailable"

\* Variant: the count is read before the previous insert is visible.
add_caller_stale_count(tbl, p, q) ==
    IF MatchRows(tbl, p, q) # {}
    THEN [error |-> DuplicateError, data |-> 0, table |-> tbl]
    ELSE LET count == occupant_count(tbl, q)
             new_position == IF count > 1 THEN count ELSE 1
         IN  [error |-> "", data |-> new_position,
              table |-> tbl \cup {Row(p, q, new_position)}]

\* join: duplicate check, count read and insert in one transaction
add_caller_to_queue(tbl, p, q) ==
    IF MatchRows(tbl, p, q) # {}
    THEN [error |-> DuplicateError, data |-> 0, table |-> tbl]
    ELSE LET new_position == occupant_count(tbl, q) + 1
         IN  [error |-> "", data |-> new_position,
              table |-> tbl \cup {Row(p, q, new_position)}]

\* Variant: the entry is deleted, nobody is renumbered.
remove_without_renumber(tbl, p, q) ==
    IF MatchRows(tbl, p, q) = {}
    THEN [error |-> "", data |-> 0, table |-> tbl]
    ELSE LET victim == CHOOSE r \in MatchRows(tbl, p, q) : TRUE
         IN  [error |-> "", data |-> victim.position, table |-> tbl \ {victim}]

\* Variant: every remaining entry of the queue is moved up, whatever its position.
remove_renumber_whole_queue(tbl, p, q) ==
    IF MatchRows(tbl, p, q) = {}
    THEN [error |-> "", data |-> 0, table |-> tbl]
    ELSE LET victim == CHOOSE r \in MatchRows(tbl, p, q) : TRUE
         IN  [error |-> "", data |-> victim.position,
              table |-> {IF r.queue_name = q /\ r.position > 1
                         THEN [r EXCEPT !.position = @ - 1]
                         ELSE r : r \in tbl \ {victim}}]

\* Variant: the renumbering stops after the entry right behind the removed one.
remove_partial_renumber(tbl, p, q) ==
    IF MatchRows(tbl, p, q) = {}
    THEN [error |-> "", data |-> 0, table |-> tbl]
    ELSE LET victim == CHOOSE r \in MatchRows(tbl, p, q) : TRUE
         IN  [error |-> "", data |-> victim.position,
              table |-> {IF r.queue_name = q /\ r.position = victim.position + 1
                         THEN [r EXCEPT !.position = @ - 1]
                         ELSE r : r \in tbl \ {victim}}]

\* leave: delete and renumber in one transaction; 0 when the caller is absent
remove_caller_from_queue(tbl, p, q) ==
    IF MatchRows(tbl, p, q) = {}
    THEN [error |-> "", data |-> 0, table |-> tbl]
    ELSE LET victim == CHOOSE r \in MatchRows(tbl, p, q) :
                           \A s \in MatchRows(tbl, p, q) : r.position <= s.position
             removed_position == victim.position
             rest == tbl \ {victim}
         IN  [error |-> "", data |-> removed_position,
              table |-> {IF r.queue_name = q /\ r.position > removed_position
                         THEN [r EXCEPT !.position = @ - 1]
                         ELSE r : r \in rest}]

\* summary: queue name -> count, for the queues that hold an entry
get_queue_summary(tbl) ==
    [q \in {r.queue_name : r \in tbl} |-> occupant_count(tbl, q)]

\* ---------------------------------------------------------------- payloads
EmptyObject == << >>

RECURSIVE Members(_, _)
Members(m, names) ==
    IF names = << >> THEN << >>
    ELSE (IF Head(names) \in DOMAIN m THEN << <<Head(names), m[Head(names)]>> >>
          ELSE << >>) \o Members(m, Tail(names))

\* json.dumps of the summary: the text's members, in order; "{}" is EmptyObject
json_dumps(summary) ==
    IF DOMAIN summary = {} THEN EmptyObject ELSE Members(summary, QueueOrder)

\* the count a payload shows for queue q, 0 when the payload does not list q
Shown(payload, q) ==
    IF \E i \in 1..Len(payload) : payload[i][1] = q
    THEN (CHOOSE pr \in {payload[i] : i \in 1..Len(payload)} : pr[1] = q)[2]
    ELSE 0

\* ------------------------------------------------------------------- tasks
Idle == [kind |-> "none", phone_number |-> 0, queue_name |-> "", chan |-> 0,
         slot |-> 0, pc |-> "idle", error |-> "", data |-> 0,
         payload |-> EmptyObject, logged |-> "", sent |-> {},
         status |-> 0, position |-> 0, message |-> ""]

NewTask(kind, p, q, c, slot) ==
    [Idle EXCEPT !.kind = kind, !.phone_number = p, !.queue_name = q,
                 !.chan = c, !.slot = slot]

TypeOK ==
    /\ \A r \in table : r.phone_number \in Phones /\ r.queue_name \in Queues
                        /\ r.position \in Nat
    /\ \A i \in 1..Len(subscribers) : subscribers[i] \in DOMAIN chan
    /\ \A c \in DOMAIN conn : conn[c] \in {"closed", "open", "gone"}
    /\ task.pc \in {"idle", "fetch", "publish", "done"}
    /\ \A c \in DOMAIN gen :
          /\ gen[c].pc \in {"none", "unstarted", "waiting", "checking", "dead"}
          /\ gen[c].pc # "checking" => gen[c].message = EmptyObject

\* No payload has been yielded on the connection yet.
NoPayload == << <<"none", 0>> >>

\* The store workload: many callers, one connection, little room in the
\* channels; what the clients receive is not recorded.
StoreLoad ==
    [phones |-> Phones, queues |-> Queues, rows |-> MaxRows,
     room |-> MaxUndelivered, observe |-> FALSE]

\* The notification workload: few callers, several connections, room for a
\* subscriber that does not read; what the clients receive is recorded.
NotifyLoad ==
    [phones |-> 1..NotifyPhones, queues |-> {"Sales"}, rows |-> MaxRows,
     room |-> NotifyRoom, observe |-> TRUE]

\* The event_generator of a connection: none while the connection is closed,
\* unstarted while the response has not asked it for its first item, waiting
\* at queue.get(), checking request.is_disconnected() with the message it
\* took, or dead when it was closed without ever having run.
Generator(pc, message) == [pc |-> pc, message |-> message]
NoGenerator == Generator("none", EmptyObject)

InitWith(chans, workload) ==
    /\ table = {}
    /\ subscribers = << >>
    /\ chan = [c \in chans |-> << >>]
    /\ conn = [c \in chans |-> "closed"]
    /\ task = Idle
    /\ batch = << >>
    /\ gen = [c \in chans |-> NoGenerator]
    /\ load = workload
    /\ recv = [c \in chans |-> NoPayload]
    /\ stale = FALSE

Init == InitWith(Chans, StoreLoad)

InitNotify == InitWith(1..NotifyChans, NotifyLoad)

\* The disconnect workload: as the notification workload, with room for one
\* waiting payload per connection and no record of what the clients receive.
LiveLoad ==
    [phones |-> 1..NotifyPhones, queues |-> {"Sales"}, rows |-> MaxRows,
     room |-> NotifyChans, observe |-> FALSE]

InitLive == InitWith(1..NotifyChans, LiveLoad)

\* The slow-subscriber workload: as the notification workload, with no record
\* of what the clients receive.
SlowLoad ==
    [phones |-> 1..NotifyPhones, queues |-> {"Sales"}, rows |-> MaxRows,
     room |-> NotifyRoom, observe |-> FALSE]

InitSlow == InitWith(1..NotifyChans, SlowLoad)

RECURSIVE Waiting(_, _)
Waiting(ch, cs) ==
    IF cs = {} THEN 0
    ELSE LET c == CHOOSE x \in cs : TRUE
         IN  Len(ch[c]) + Waiting(ch, cs \ {c})

\* The payloads generators have taken from their channel and not yet yielded.
Taken == Cardinality({c \in DOMAIN gen : gen[c].pc = "checking"})

\* Clients stop submitting while load.room payloads are undelivered (waiting
\* in a channel or taken and not yet yielded), counting the one payload per
\* subscriber that the request's fan-out adds (`joining` is 1 for a request
\* that subscribes a new channel first).
ChannelsHaveRoom(joining) ==
    Waiting(chan, DOMAIN chan) + Taken + Len(subscribers) + joining <= load.room

\* Clients stop adding new callers once the table holds load.rows rows.
MayJoin(p, q) == MatchRows(table, p, q) # {} \/ Cardinality(table) < load.rows

\* -------------------------------------------------------- increment_queue
\* Variant: the except clause misses the duplicate text; every error is a 500.
increment_rpc_conflict_as_500(t, fail) ==
    LET result == add_caller_to_queue(table, t.phone_number, t.queue_name)
        e == IF fail THEN StoreError ELSE result.error
    IN  IF e = ""
        THEN /\ table' = result.table
             /\ task' = [t EXCEPT !.pc = "fetch", !.data = result.data]
        ELSE /\ table' = table
             /\ task' = [t EXCEPT !.pc = "done", !.error = e, !.status = 500,
                            !.message = "An unexpected database error occurred"]

\* Variant: broadcast_update is called although the store call raised.
increment_rpc_notify_on_error(t, fail) ==
    LET result == add_caller_to_queue(table, t.phone_number, t.queue_name)
        e == IF fail THEN StoreError ELSE result.error
    IN  IF e = ""
        THEN /\ table' = result.table
             /\ task' = [t EXCEPT !.pc = "fetch", !.data = result.data]
        ELSE /\ table' = table
             /\ task' = [t EXCEPT !.pc = "fetch", !.error = e]

\* The handler up to the return of the add_caller_to_queue call, and the
\* except clause when the call raises.
increment_rpc(t, fail) ==
    LET result == add_caller_to_queue(table, t.phone_number, t.queue_name)
        e == IF fail THEN StoreError ELSE result.error
    IN  IF e = ""
        THEN /\ table' = result.table
             /\ task' = [t EXCEPT !.pc = "fetch", !.data = result.data]
        ELSE /\ table' = table
             /\ task' = [t EXCEPT !.pc = "done", !.error = e,
                            !.status = IF e = DuplicateError THEN 409 ELSE 500,
                            !.message = IF e = DuplicateError
                                        THEN "Caller is already in this queue."
                                        ELSE "An unexpected database error occurred"]

increment_queue(fails) ==
    /\ task = Idle
    /\ batch = << >>
    /\ ChannelsHaveRoom(0)
    /\ \E p \in load.phones, q \in load.queues, fail \in fails :
          /\ MayJoin(p, q)
          /\ increment_rpc(NewTask("join", p, q, 0, 0), fail)
    /\ UNCHANGED <<subscribers, chan, conn, batch, gen, load, recv, stale>>

\* -------------------------------------------------------- decrement_queue
RemovedMessage == "Caller removed from queue"
NotFoundMessage == "Caller not found in the queue or already removed."

\* Variant: the test is deleted_position >= 0.
decrement_rpc_nonneg(t, fail) ==
    LET result == remove_caller_from_queue(table, t.phone_number, t.queue_name)
        deleted_position == result.data
    IN  IF fail
        THEN /\ table' = table
             /\ task' = [t EXCEPT !.pc = "done", !.error = StoreError,
                            !.status = 500,
                            !.message = "An unexpected database error occurred"]
        ELSE /\ table' = result.table
             /\ task' = IF deleted_position >= 0
                        THEN [t EXCEPT !.pc = "fetch", !.data = deleted_position]
                        ELSE [t EXCEPT !.pc = "done", !.status = 200,
                                 !.data = deleted_position,
                                 !.message = NotFoundMessage]

\* Variant: the procedure is called with a queue name other than the request's.
decrement_rpc_other_queue(t, fail) ==
    LET other == CHOOSE q \in Queues : q # t.queue_name
        result == remove_caller_from_queue(table, t.phone_number, other)
        deleted_position == result.data
    IN  IF fail
        THEN /\ table' = table
             /\ task' = [t EXCEPT !.pc = "done", !.error = StoreError,
                            !.status = 500,
                            !.message = "An unexpected database error occurred"]
        ELSE /\ table' = result.table
             /\ task' = IF deleted_position > 0
                        THEN [t EXCEPT !.pc = "fetch", !.data = deleted_position]
                        ELSE [t EXCEPT !.pc = "done", !.status = 200,
                                 !.data = deleted_position,
                                 !.message = NotFoundMessage]

\* Variant: a store failure is swallowed and answered as not found.
decrement_rpc_swallow(t, fail) ==
    LET result == remove_caller_from_queue(table, t.phone_number, t.queue_name)
        deleted_position == result.data
    IN  IF fail
        THEN /\ table' = table
             /\ task' = [t EXCEPT !.pc = "done", !.error = StoreError,
                            !.status = 200, !.message = NotFoundMessage]
        ELSE /\ table' = result.table
             /\ task' = IF deleted_position > 0
                        THEN [t EXCEPT !.pc = "fetch", !.data = deleted_position]
                        ELSE [t EXCEPT !.pc = "done", !.status = 200,
                                 !.data = deleted_position,
                                 !.message = NotFoundMessage]

decrement_rpc(t, fail) ==
    LET result == remove_caller_from_queue(table, t.phone_number, t.queue_name)
        deleted_position == result.data
    IN  IF fail
        THEN /\ table' = table
             /\ task' = [t EXCEPT !.pc = "done", !.error = StoreError,
                            !.status = 500,
                            !.message = "An unexpected database error occurred"]
        ELSE /\ table' = result.table
             /\ task' = IF deleted_position > 0
                        THEN [t EXCEPT !.pc = "fetch", !.data = deleted_position]
                        ELSE [t EXCEPT !.pc = "done", !.status = 200,
                                 !.data = deleted_position,
                                 !.message = NotFoundMessage]

decrement_queue(fails) ==
    /\ task = Idle
    /\ batch = << >>
    /\ ChannelsHaveRoom(0)
    /\ \E p \in load.phones, q \in load.queues, fail \in fails :
          decrement_rpc(NewTask("leave", p, q, 0, 0), fail)
    /\ UNCHANGED <<subscribers, chan, conn, batch, gen, load, recv, stale>>

\* ------------------------------------------------------- BroadcastManager
\* Variant: the channel is appended twice.
subscribe_twice(subs, queue) == Append(Append(subs, queue), queue)

subscribe(subs, queue) == Append(subs, queue)

unsubscribe(subs, queue) ==
    LET i == CHOOSE j \in 1..Len(subs) :
                 subs[j] = queue /\ \A k \in 1..(j - 1) : subs[k] # queue
    IN  SubSeq(subs, 1, i - 1) \o SubSeq(subs, i + 1, Len(subs))

RECURSIVE PutAll(_, _, _)
PutAll(ch, subs, message) ==
    IF subs = << >> THEN ch
    ELSE PutAll([ch EXCEPT ![Head(subs)] = Append(@, message)], Tail(subs), message)

\* Variant: the payload is put at the head of each channel.
broadcast_to_front(ch, subs, message) ==
    [c \in DOMAIN ch |->
        IF \E i \in 1..Len(subs) : subs[i] = c THEN <<message>> \o ch[c] ELSE ch[c]]

\* Variant: the loop starts at the second subscriber.
broadcast_skip_first(ch, subs, message) ==
    IF subs = << >> THEN ch ELSE PutAll(ch, Tail(subs), message)

broadcast(ch, subs, message) == PutAll(ch, subs, message)

\* ------------------------------------------------------- handler returns
\* Variant: a join returns the count read before the insert.
Returned_count_before(t) ==
    IF t.kind = "join"
    THEN [t EXCEPT !.pc = "done", !.status = 200, !.position = t.data - 1]
    ELSE IF t.kind = "leave"
    THEN [t EXCEPT !.pc = "done", !.status = 200, !.message = RemovedMessage]
    ELSE [t EXCEPT !.pc = "done", !.status = 200]

\* What the running handler returns once broadcast_update has returned.
Returned(t) ==
    IF t.kind = "join"
    THEN [t EXCEPT !.pc = "done", !.status = 200, !.position = t.data]
    ELSE IF t.kind = "leave"
    THEN [t EXCEPT !.pc = "done", !.status = 200, !.message = RemovedMessage]
    ELSE [t EXCEPT !.pc = "done", !.status = 200]

\* ------------------------------------------------------- broadcast_update
\* Variant: the failure of the summary fetch is not caught; it reaches the
\* handler, which answers 500.
broadcast_fetch_propagates(fails) ==
    /\ task.pc = "fetch"
    /\ \E fail \in fails :
          /\ task' = IF fail
                     THEN [task EXCEPT !.pc = "done", !.status = 500,
                              !.error = StoreError]
                     ELSE [task EXCEPT !.pc = "publish",
                              !.payload = json_dumps(get_queue_summary(table))]
          /\ stale' = IF fail /\ load.observe /\ task.kind \in {"join", "leave"}
                      THEN TRUE ELSE stale
    /\ UNCHANGED <<table, subscribers, chan, conn, batch, gen, load, recv>>

\* The summary fetch; a failure is caught and printed, nothing is published.
broadcast_fetch(fails) ==
    /\ task.pc = "fetch"
    /\ \E fail \in fails :
          /\ task' = IF fail
                     THEN Returned([task EXCEPT !.logged = "Error broadcasting update"])
                     ELSE [task EXCEPT !.pc = "publish",
                              !.payload = json_dumps(get_queue_summary(table))]
          /\ stale' = IF fail /\ load.observe /\ task.kind \in {"join", "leave"}
                      THEN TRUE ELSE stale
    /\ UNCHANGED <<table, subscribers, chan, conn, batch, gen, load, recv>>

\* Variant: the channels hold one payload at most, and a put waits while
\* the channel is full.
broadcast_publish_bounded ==
    /\ task.pc = "publish"
    /\ \A i \in 1..Len(subscribers) : chan[subscribers[i]] = << >>
    /\ chan' = broadcast(chan, subscribers, task.payload)
    /\ task' = Returned([task EXCEPT !.sent = {c \in DOMAIN chan : chan'[c] # chan[c]}])
    /\ stale' = FALSE
    /\ UNCHANGED <<table, subscribers, conn, batch, gen, load, recv>>

\* The fan-out under the broadcaster lock, then the handler's return.
broadcast_publish ==
    /\ task.pc = "publish"
    /\ chan' = broadcast(chan, subscribers, task.payload)
    /\ task' = Returned([task EXCEPT !.sent = {c \in DOMAIN chan : chan'[c] # chan[c]}])
    /\ stale' = FALSE
    /\ UNCHANGED <<table, subscribers, conn, batch, gen, load, recv>>

\* The response has been sent; the event loop is free again.
respond ==
    /\ task.pc = "done"
    /\ task.slot = 0
    /\ task' = Idle
    /\ UNCHANGED <<table, subscribers, chan, conn, batch, gen, load, recv, stale>>

\* -------------------------------------------------- stream_queues_summary
\* Variant: the handler subscribes but does not send the summary on connect.
stream_queues_summary_no_initial ==
    /\ task = Idle
    /\ batch = << >>
    /\ ChannelsHaveRoom(1)
    /\ \E c \in DOMAIN chan :
          /\ conn[c] = "closed"
          /\ subscribers' = subscribe(subscribers, c)
          /\ conn' = [conn EXCEPT ![c] = "open"]
          /\ gen' = [gen EXCEPT ![c] = Generator("unstarted", EmptyObject)]
          /\ task' = [NewTask("stream", 0, "", c, 0) EXCEPT !.pc = "done",
                          !.status = 200]
    /\ UNCHANGED <<table, chan, batch, load, recv, stale>>

\* The handler: a channel for the connection, subscribed, then the summary
\* sent to every subscriber, then the streaming response.
stream_queues_summary ==
    /\ task = Idle
    /\ batch = << >>
    /\ ChannelsHaveRoom(1)
    /\ \E c \in DOMAIN chan :
          /\ conn[c] = "closed"
          /\ subscribers' = subscribe(subscribers, c)
          /\ conn' = [conn EXCEPT ![c] = "open"]
          /\ gen' = [gen EXCEPT ![c] = Generator("unstarted", EmptyObject)]
          /\ task' = [NewTask("stream", 0, "", c, 0) EXCEPT !.pc = "fetch"]
    /\ UNCHANGED <<table, chan, batch, load, recv, stale>>

\* The response asks the generator for its first item: the body is entered
\* and reaches queue.get().
event_generator_start(c) ==
    /\ task = Idle
    /\ gen[c].pc = "unstarted"
    /\ gen' = [gen EXCEPT ![c] = Generator("waiting", EmptyObject)]
    /\ UNCHANGED <<table, subscribers, chan, conn, task, batch, load, recv, stale>>

\* message = await queue.get(): the head of the channel is taken; the call
\* of request.is_disconnected() that follows returns to the event loop.
event_generator_get(c) ==
    /\ task = Idle
    /\ gen[c].pc = "waiting"
    /\ chan[c] # << >>
    /\ chan' = [chan EXCEPT ![c] = Tail(@)]
    /\ gen' = [gen EXCEPT ![c] = Generator("checking", Head(chan[c]))]
    /\ UNCHANGED <<table, subscribers, conn, task, batch, load, recv, stale>>

\* request.is_disconnected() has answered: the loop is left (and the finally
\* clause unsubscribes) when the client is gone, else the message is yielded.
event_generator_yield(c) ==
    /\ task = Idle
    /\ gen[c].pc = "checking"
    /\ IF conn[c] = "gone"
       THEN /\ subscribers' = unsubscribe(subscribers, c)
            /\ conn' = [conn EXCEPT ![c] = "closed"]
            /\ chan' = [chan EXCEPT ![c] = << >>]
            /\ gen' = [gen EXCEPT ![c] = NoGenerator]
            /\ recv' = [recv EXCEPT ![c] = NoPayload]
       ELSE /\ gen' = [gen EXCEPT ![c] = Generator("waiting", EmptyObject)]
            /\ recv' = IF load.observe THEN [recv EXCEPT ![c] = gen[c].message]
                       ELSE recv
            /\ UNCHANGED <<subscribers, conn, chan>>
    /\ UNCHANGED <<table, task, batch, load, stale>>

\* One step of event_generator.
event_generator(c) ==
    \/ event_generator_start(c)
    \/ event_generator_get(c)
    \/ event_generator_yield(c)

\* The generator is cancelled while it is suspended inside its try block;
\* its finally clause unsubscribes.
event_generator_cancelled(c) ==
    /\ task = Idle
    /\ conn[c] = "gone"
    /\ gen[c].pc \in {"waiting", "checking"}
    /\ subscribers' = unsubscribe(subscribers, c)
    /\ conn' = [conn EXCEPT ![c] = "closed"]
    /\ chan' = [chan EXCEPT ![c] = << >>]
    /\ gen' = [gen EXCEPT ![c] = NoGenerator]
    /\ recv' = [recv EXCEPT ![c] = NoPayload]
    /\ UNCHANGED <<table, task, batch, load, stale>>

\* The response is cancelled before it has asked the generator for its first
\* item: the body was never entered, so the finally clause does not run and
\* the channel stays in the subscriber list.
event_generator_never_started(c) ==
    /\ task = Idle
    /\ conn[c] = "gone"
    /\ gen[c].pc = "unstarted"
    /\ gen' = [gen EXCEPT ![c] = Generator("dead", EmptyObject)]
    /\ UNCHANGED <<table, subscribers, chan, conn, task, batch, load, recv, stale>>

client_disconnects(c) ==
    /\ conn[c] = "open"
    /\ conn' = [conn EXCEPT ![c] = "gone"]
    /\ UNCHANGED <<table, subscribers, chan, task, batch, gen, load, recv, stale>>

Generate == \E c \in DOMAIN chan : event_generator(c)
Cancelled == \E c \in DOMAIN chan : event_generator_cancelled(c)
NeverStarted == \E c \in DOMAIN chan : event_generator_never_started(c)
Disconnect == \E c \in DOMAIN chan : client_disconnects(c)

\* ------------------------------------------------------------------ reads
\* The read handlers run in worker threads: one store query each, at any
\* moment, the moments between a handler's steps included.
\* The position of a caller that is in no queue: None (positions start at 1).
Null == 0

\* Variant: the query matches the phone number only.
get_caller_status_any_queue(tbl, phone_number, queue_name) ==
    LET data == {r \in tbl : r.phone_number = phone_number}
    IN  IF data # {}
        THEN [phone_number |-> phone_number, queue_name |-> queue_name,
              in_queue |-> TRUE, position |-> (CHOOSE r \in data : TRUE).position]
        ELSE [phone_number |-> phone_number, queue_name |-> queue_name,
              in_queue |-> FALSE, position |-> Null]

get_caller_status(tbl, phone_number, queue_name) ==
    LET data == MatchRows(tbl, phone_number, queue_name)
    IN  IF data # {}
        THEN [phone_number |-> phone_number, queue_name |-> queue_name,
              in_queue |-> TRUE, position |-> (CHOOSE r \in data : TRUE).position]
        ELSE [phone_number |-> phone_number, queue_name |-> queue_name,
              in_queue |-> FALSE, position |-> Null]

get_queue_count(tbl, queue_name) ==
    [queue_name |-> queue_name, count |-> Cardinality(QueueRows(tbl, queue_name))]

\* dict.get(key, default)
Get(d, key, default) == IF key \in DOMAIN d THEN d[key] ELSE default

\* d[key] = value
Put(d, key, value) ==
    [k \in DOMAIN d \cup {key} |-> IF k = key THEN value ELSE d[k]]

\* The loop over the records of the select, one queue_name per row.
RECURSIVE CountRecords(_, _)
CountRecords(records, queue_counts) ==
    IF records = {} THEN queue_counts
    ELSE LET record == CHOOSE r \in records : TRUE
             q_name == record.queue_name
         IN  CountRecords(records \ {record},
                          Put(queue_counts, q_name, Get(queue_counts, q_name, 0) + 1))

\* Variant: the loop records each queue name with the count 1.
get_queues_summary_flat(tbl) ==
    LET queue_counts == [name \in {r.queue_name : r \in tbl} |-> 1]
    IN  {[queue_name |-> name, count |-> queue_counts[name]] :
            name \in DOMAIN queue_counts}

get_queues_summary(tbl) ==
    LET queue_counts == CountRecords(tbl, << >>)
    IN  {[queue_name |-> name, count |-> queue_counts[name]] :
            name \in DOMAIN queue_counts}

\* ------------------------------------------------- concurrent join batches
\* NumReqs join requests are in flight together; the event loop runs them
\* one after the other, in any order.
Batches ==
    [1..NumReqs -> [phone_number : Phones, queue_name : Queues,
                    state : {"pending"}, status : {0}, position : {0}]]

InitJoins ==
    /\ table = {}
    /\ subscribers = << >>
    /\ chan = [c \in Chans |-> << >>]
    /\ conn = [c \in Chans |-> "closed"]
    /\ task = Idle
    /\ batch \in Batches
    /\ gen = [c \in Chans |-> NoGenerator]
    /\ load = StoreLoad
    /\ recv = [c \in Chans |-> NoPayload]
    /\ stale = FALSE

batch_increment(fails) ==
    /\ task = Idle
    /\ \E i \in DOMAIN batch, fail \in fails :
          /\ batch[i].state = "pending"
          /\ increment_rpc(NewTask("join", batch[i].phone_number,
                                   batch[i].queue_name, 0, i), fail)
          /\ batch' = [batch EXCEPT ![i].state = "running"]
    /\ UNCHANGED <<subscribers, chan, conn, gen, load, recv, stale>>

batch_respond ==
    /\ task.pc = "done"
    /\ task.slot # 0
    /\ batch' = [batch EXCEPT ![task.slot] =
                    [@ EXCEPT !.state = "done", !.status = task.status,
                              !.position = task.position]]
    /\ task' = Idle
    /\ UNCHANGED <<table, subscribers, chan, conn, gen, load, recv, stale>>

\* --------------------------------------------------------- specifications
Next ==
    \/ increment_queue(BOOLEAN)
    \/ decrement_queue(BOOLEAN)
    \/ broadcast_fetch(BOOLEAN)
    \/ broadcast_publish
    \/ respond
    \/ stream_queues_summary
    \/ Generate
    \/ Cancelled
    \/ NeverStarted
    \/ Disconnect

Spec == Init /\ [][Next]_vars

\* A batch of joins against a store that answers every add_caller_to_queue call.
NextJoins ==
    \/ batch_increment({FALSE})
    \/ broadcast_fetch(BOOLEAN)
    \/ broadcast_publish
    \/ batch_respond

SpecJoins == InitJoins /\ [][NextJoins]_vars

\* The service under the notification workload.
SpecNotify == InitNotify /\ [][Next]_vars

\* The event loop runs the handler it has started to its end: the handler's
\* next step is taken whenever it stays possible.
HandlerFair ==
    /\ WF_vars(broadcast_fetch(BOOLEAN))
    /\ WF_vars(broadcast_publish)
    /\ WF_vars(respond)

\* The slow-subscriber workload with handlers that run on; nothing is assumed
\* of the subscribers, which may never read and may disconnect at any time.
SpecNotifyFair == InitSlow /\ [][Next]_vars /\ HandlerFair

\* The event loop runs what is ready in turn: a generator whose channel
\* holds a payload gets its turn, and so does the cancellation of the
\* generator of a client that is gone, however many requests arrive.
GeneratorFair ==
    \A c \in 1..NotifyChans :
       /\ SF_vars(event_generator(c))
       /\ SF_vars(event_generator_cancelled(c))

\* The disconnect workload with handlers and generators that run on.
SpecLive == InitLive /\ [][Next]_vars /\ HandlerFair /\ GeneratorFair

\* ------------------------------------------------------------------ claims
PosOf(tbl, p, q) ==
    IF MatchRows(tbl, p, q) = {} THEN 0
    ELSE (CHOOSE r \in MatchRows(tbl, p, q) : TRUE).position

Contiguous(tbl) ==
    \A q \in Queues : Positions(tbl, q) = 1..occupant_count(tbl, q)

UniquePairs(tbl) ==
    \A r, s \in tbl :
        (r.phone_number = s.phone_number /\ r.queue_name = s.queue_name) => r = s

\* A handler starts: the event loop was free and now runs a task of this kind.
Starts(kind) == task = Idle /\ task'.kind = kind

\* C1: in every reachable state the positions held in each queue are exactly
\* 1..N, N the number of entries of the queue: no gap, no duplicate.
C1_PositionsContiguous ==
    \A q \in Queues : Positions(table, q) = 1..Cardinality(QueueRows(table, q))

C1_Witness ==
    /\ task.kind = "leave" /\ task.pc = "done" /\ task.status = 200
    /\ task.data = 1
    /\ occupant_count(table, task.queue_name) = 2

\* C2: when the join requests of a batch that target one queue come from
\* distinct callers and have all completed, in whatever order the batch was
\* run, all of them got 200 and the positions returned and stored are
\* exactly 1..N; two completed joins of a queue never got the same position.
C2_ConcurrentJoins ==
    \A q \in Queues :
        LET S == {i \in DOMAIN batch : batch[i].queue_name = q}
            ok == {i \in S : batch[i].state = "done" /\ batch[i].status = 200}
        IN  /\ \A i, j \in ok : i # j => batch[i].position # batch[j].position
            /\ ( /\ \A i \in S : batch[i].state = "done"
                 /\ \A i, j \in S : i # j => batch[i].phone_number # batch[j].phone_number )
               => /\ ok = S
                  /\ {batch[i].position : i \in S} = 1..Cardinality(S)
                  /\ \A i \in S : Row(batch[i].phone_number, q, batch[i].position) \in table
                  /\ occupant_count(table, q) = Cardinality(S)

C2_Witness ==
    /\ \A i \in DOMAIN batch : batch[i].state = "done" /\ batch[i].queue_name = "Sales"
    /\ \A i, j \in DOMAIN batch : i # j => batch[i].phone_number # batch[j].phone_number
    /\ batch[1].position = NumReqs

\* C3: a join for a pair already in the table changes nothing and is
\* answered 409 (500 if the store call itself failed), and no state holds
\* two entries for one (phone_number, queue_name) pair.
C3_DuplicateRejected ==
    /\ [](UniquePairs(table))
    /\ [][ ( /\ Starts("join")
             /\ MatchRows(table, task'.phone_number, task'.queue_name) # {} )
           => /\ table' = table
              /\ chan' = chan
              /\ task'.pc = "done"
              /\ task'.status = IF task'.error = StoreError THEN 500 ELSE 409 ]_vars

C3_Witness ==
    /\ task.kind = "join" /\ task.pc = "done" /\ task.status = 409
    /\ PosOf(table, task.phone_number, task.queue_name) = 2

\* C4: a leave for a caller who is not in the queue changes nothing and,
\* unless the store call itself failed, returns 200 with the not-found
\* message.
C4_LeaveAbsent ==
    [][ ( /\ Starts("leave")
          /\ MatchRows(table, task'.phone_number, task'.queue_name) = {} )
        => /\ table' = table
           /\ chan' = chan
           /\ task'.pc = "done"
           /\ task'.error # StoreError
                => task'.status = 200 /\ task'.message = NotFoundMessage ]_vars

C4_Witness ==
    /\ task.kind = "leave" /\ task.pc = "done" /\ task.status = 200
    /\ task.message = NotFoundMessage
    /\ occupant_count(table, task.queue_name) > 0

\* C5: a leave that removes the entry at position p of queue Q moves every
\* entry of Q behind p up by exactly one, leaves the entries before p where
\* they are, and so keeps the order of the remaining occupants.
C5_Renumbering ==
    [][ ( /\ Starts("leave")
          /\ task'.error # StoreError
          /\ MatchRows(table, task'.phone_number, task'.queue_name) # {} )
        => LET q == task'.queue_name
               p == PosOf(table, task'.phone_number, q)
               others == {r \in QueueRows(table, q) :
                             r.phone_number # task'.phone_number}
           IN  /\ task'.data = p
               /\ MatchRows(table', task'.phone_number, q) = {}
               /\ QueueRows(table', q) =
                     {Row(r.phone_number, q,
                          IF r.position > p THEN r.position - 1 ELSE r.position) :
                        r \in others}
               /\ \A r, s \in others :
                     r.position < s.position
                        => PosOf(table', r.phone_number, q)
                              < PosOf(table', s.phone_number, q) ]_vars

C5_Witness ==
    /\ task.kind = "leave" /\ task.pc = "fetch" /\ task.data = 2
    /\ occupant_count(table, task.queue_name) = 2

\* C6: a join of a caller not yet in queue Q inserts, in the one step of
\* the store call, the caller at the count Q had before plus 1, and the
\* 200 response carries that stored position.
C6_JoinPosition ==
    /\ [][ ( /\ Starts("join")
             /\ task'.error # StoreError
             /\ MatchRows(table, task'.phone_number, task'.queue_name) = {} )
           => LET n == occupant_count(table, task'.queue_name)
              IN  /\ task'.data = n + 1
                  /\ table' = table \cup
                        {Row(task'.phone_number, task'.queue_name, n + 1)} ]_vars
    /\ [][ (task.kind = "join" /\ task.pc # "done" /\ task'.pc = "done")
           => /\ task'.status = 200
              /\ task'.position = task.data
              /\ Row(task.phone_number, task.queue_name, task'.position) \in table' ]_vars

C6_Witness ==
    /\ task.kind = "join" /\ task.pc = "done" /\ task.status = 200
    /\ task.position = 3

\* C7: a step changes the entries of a queue only when it is the store call
\* of a join or leave for that very queue; every other queue keeps its
\* entries, positions and count.
C7_CrossQueueIsolation ==
    [][ \A q \in Queues :
           QueueRows(table', q) # QueueRows(table, q)
              => /\ task = Idle
                 /\ task'.kind \in {"join", "leave"}
                 /\ task'.queue_name = q ]_vars

C7_Witness ==
    /\ task.kind = "join" /\ task.pc = "fetch" /\ task.queue_name = "Sales"
    /\ task.data = 2
    /\ PosOf(table, task.phone_number, "Support") = 1

\* C8: whatever a reader queries, at any moment, a leave in flight
\* included: a status position lies within 1..count of its queue, every
\* position of 1..count is held by some caller, and the summary lists the
\* queue with that count.
C8_ReadersSeeNoGap ==
    \A q \in Queues :
        LET n == get_queue_count(table, q).count
        IN  /\ \A p \in Phones :
                  get_caller_status(table, p, q).in_queue
                     => get_caller_status(table, p, q).position \in 1..n
            /\ \A k \in 1..n :
                  \E p \in Phones :
                     /\ get_caller_status(table, p, q).in_queue
                     /\ get_caller_status(table, p, q).position = k
            /\ n > 0 <=> [queue_name |-> q, count |-> n] \in get_queues_summary(table)

C8_Witness ==
    /\ task.kind = "leave" /\ task.pc \in {"fetch", "publish"} /\ task.data = 1
    /\ get_queue_count(table, task.queue_name).count = 2
    /\ \E p \in Phones : get_caller_status(table, p, task.queue_name).position = 2

\* C9: a join or leave whose store call fails is answered 500 and leaves the
\* table as it was, and a join or leave answered 200 never leaves the table
\* with a gap, a duplicate position or a duplicate pair.
C9_StoreFailure ==
    /\ [][ ( /\ task = Idle
             /\ task'.kind \in {"join", "leave"}
             /\ task'.error = StoreError )
           => /\ task'.pc = "done"
              /\ task'.status = 500
              /\ table' = table
              /\ chan' = chan ]_vars
    /\ []( (task.kind \in {"join", "leave"} /\ task.status = 200)
              => Contiguous(table) /\ UniquePairs(table) )

C9_Witness ==
    /\ task.kind = "leave" /\ task.pc = "done" /\ task.status = 500
    /\ PosOf(table, task.phone_number, task.queue_name) = 2

\* C10 as stated: every join answered 200 has put, into each subscribed
\* channel, a payload that shows the joined queue with its count after the
\* join.
C10_Original ==
    (task.kind = "join" /\ task.pc = "done" /\ task.status = 200)
       => \A i \in 1..Len(subscribers) :
             /\ subscribers[i] \in task.sent
             /\ Shown(task.payload, task.queue_name)
                   = occupant_count(table, task.queue_name)

\* C10: the subscriber list does not change while a join runs, and a join
\* answered 200 whose summary fetch did not fail has put one payload into
\* each subscribed channel, the payload showing the joined queue with the
\* count it has after the join; a join whose summary fetch failed has
\* logged the failure and put nothing.
C10_JoinNotifies ==
    /\ [][task'.kind = "join" => subscribers' = subscribers]_vars
    /\ []( (task.kind = "join" /\ task.pc = "done" /\ task.status = 200)
             => IF task.logged = ""
                THEN \A i \in 1..Len(subscribers) :
                        LET c == subscribers[i]
                        IN  /\ task.sent = {subscribers[j] : j \in 1..Len(subscribers)}
                            /\ chan[c] # << >>
                            /\ chan[c][Len(chan[c])] = task.payload
                            /\ Shown(task.payload, task.queue_name)
                                  = occupant_count(table, task.queue_name)
                            /\ Shown(task.payload, task.queue_name) = task.position
                ELSE task.sent = {} )

C10_Witness ==
    /\ task.kind = "join" /\ task.pc = "done" /\ task.status = 200
    /\ task.logged = ""
    /\ subscribers # << >>
    /\ task.position = 2
    /\ Shown(chan[subscribers[1]][1], task.queue_name) = 2

\* C11: a failure while notifying never changes the outcome of a join or a
\* leave. Once the store call of a join or leave has committed, no later
\* step of the handler changes the table, and the handler ends with 200: a
\* join returns the position the store gave it, a leave returns its removal
\* message. In particular a handler that logged a notification failure has
\* answered 200 and the table still holds the join's row at the returned
\* position, or no longer holds the leaver's entry.
C11_NotifyFailureKeepsOutcome ==
    /\ [][ (task.kind \in {"join", "leave"} /\ task.pc \in {"fetch", "publish"})
             => /\ table' = table
                /\ task' = task \/ task'.pc \in {"publish", "done"}
                /\ (task' # task /\ task'.pc = "done")
                      => /\ task'.status = 200
                         /\ task'.data = task.data
                         /\ task.kind = "join" => task'.position = task.data
                         /\ task.kind = "leave" => task'.message = RemovedMessage ]_vars
    /\ []( (task.kind \in {"join", "leave"} /\ task.pc = "done" /\ task.logged # "")
             => /\ task.status = 200
                /\ task.data >= 1
                /\ task.kind = "join"
                      => /\ task.position = task.data
                         /\ Row(task.phone_number, task.queue_name, task.position)
                               \in table
                /\ task.kind = "leave"
                      => /\ task.message = RemovedMessage
                         /\ MatchRows(table, task.phone_number, task.queue_name) = {} )

C11_Witness ==
    /\ task.kind = "leave" /\ task.pc = "done"
    /\ task.logged = "Error broadcasting update"
    /\ task.status = 200 /\ task.message = RemovedMessage
    /\ task.data = 1
    /\ subscribers # << >>
    /\ \E r \in table : r.queue_name = task.queue_name /\ r.position = 1

\* The channels in the subscriber list.
Subscribed == {subscribers[i] : i \in 1..Len(subscribers)}

\* The payload put last into a non-empty channel.
Newest(c) == chan[c][Len(chan[c])]

\* The payload of the summary of the table as it is now.
CurrentPayload == json_dumps(get_queue_summary(table))

\* C12 as stated: a connecting client has the current summary as the first
\* payload of its channel when the handler returns, and every join or leave
\* that committed has put the summary of the table into the channel of
\* every subscriber.
C12_Original ==
    /\ (task.kind = "stream" /\ task.pc = "done")
          => chan[task.chan] = <<CurrentPayload>>
    /\ (task.kind \in {"join", "leave"} /\ task.pc = "done"
           /\ task.status = 200 /\ task.data >= 1)
          => \A c \in Subscribed : chan[c] # << >> /\ Newest(c) = CurrentPayload

\* C12: a connecting client whose summary fetch did not fail has the current
\* summary as the only payload of its channel when the handler returns, and
\* nothing has been yielded to it before; a join or leave that committed and
\* whose summary fetch did not fail has put the summary of the table, once,
\* into the channel of every subscriber; when the summary fetch fails the
\* failure is logged and nothing is put. Payloads leave a channel only from
\* its head, taken by the connection's generator, and a taken payload is
\* the next one yielded to the client unless the client is gone by then, so
\* a connected client receives the payloads in the order they were put.
C12_StreamDelivers ==
    /\ []( (task.kind = "stream" /\ task.pc = "done")
             => /\ task.chan \in Subscribed
                /\ recv[task.chan] = NoPayload
                /\ gen[task.chan].pc = "unstarted"
                /\ IF task.logged = ""
                   THEN chan[task.chan] = <<CurrentPayload>>
                   ELSE chan[task.chan] = << >> /\ task.sent = {} )
    /\ []( (task.kind \in {"join", "leave"} /\ task.pc = "done"
              /\ task.status = 200 /\ task.data >= 1)
             => IF task.logged = ""
                THEN /\ task.sent = Subscribed
                     /\ \A c \in Subscribed :
                           chan[c] # << >> /\ Newest(c) = CurrentPayload
                ELSE task.sent = {} )
    /\ [][ \A c \in DOMAIN chan :
              /\ (task.pc = "publish" /\ task' # task /\ c \in Subscribed)
                    => chan'[c] = Append(chan[c], task.payload)
              /\ (chan'[c] # chan[c] /\ task.pc # "publish")
                    => \/ /\ gen[c].pc = "waiting" /\ chan[c] # << >>
                          /\ chan'[c] = Tail(chan[c])
                          /\ gen'[c] = Generator("checking", Head(chan[c]))
                          /\ recv'[c] = recv[c]
                       \/ /\ conn[c] = "gone" /\ conn'[c] = "closed"
                          /\ chan'[c] = << >>
              /\ (gen[c].pc = "checking" /\ gen'[c] # gen[c])
                    => \/ /\ conn[c] = "open" /\ recv'[c] = gen[c].message
                          /\ chan'[c] = chan[c] /\ gen'[c].pc = "waiting"
                       \/ conn[c] = "gone" /\ conn'[c] = "closed"
              /\ recv'[c] # recv[c]
                    => \/ recv'[c] = NoPayload /\ conn'[c] = "closed"
                       \/ /\ conn[c] = "open" /\ gen[c].pc = "checking"
                          /\ recv'[c] = gen[c].message ]_vars

C12_Witness ==
    \E c \in DOMAIN chan :
       /\ conn[c] = "open" /\ c \in Subscribed
       /\ task = Idle
       /\ table # {}
       /\ recv[c] = EmptyObject
       /\ chan[c] = <<CurrentPayload>>

\* C13: status reflects the committed store. For every pair, in_queue is
\* true exactly when the table holds an entry for the pair, the position is
\* then the position of that entry, and it is null otherwise; the positions
\* status reports for the callers of a queue are exactly 1..count of that
\* queue. A join answered 200 is reported at the position it returned, and
\* after a leave that removed an entry the leaver is reported as not in the
\* queue.
C13_StatusReflectsStore ==
    /\ \A p \in Phones, q \in Queues :
          LET s == get_caller_status(table, p, q)
          IN  /\ s.phone_number = p /\ s.queue_name = q
              /\ s.in_queue <=> (\E r \in table : r.phone_number = p /\ r.queue_name = q)
              /\ s.in_queue
                    => \A r \in table : (r.phone_number = p /\ r.queue_name = q)
                                            => s.position = r.position
              /\ ~s.in_queue => s.position = Null
    /\ \A q \in Queues :
          {get_caller_status(table, p, q).position :
              p \in {x \in Phones : get_caller_status(table, x, q).in_queue}}
            = 1..get_queue_count(table, q).count
    /\ (task.kind = "join" /\ task.pc = "done" /\ task.status = 200)
          => get_caller_status(table, task.phone_number, task.queue_name)
               = [phone_number |-> task.phone_number, queue_name |-> task.queue_name,
                  in_queue |-> TRUE, position |-> task.position]
    /\ (task.kind = "leave" /\ task.pc = "done" /\ task.message = RemovedMessage)
          => get_caller_status(table, task.phone_number, task.queue_name)
               = [phone_number |-> task.phone_number, queue_name |-> task.queue_name,
                  in_queue |-> FALSE, position |-> Null]

\* A, B and C joined an empty queue in this order and A has left.
C13_Witness ==
    /\ task.kind = "leave" /\ task.pc = "done" /\ task.message = RemovedMessage
    /\ task.phone_number = 1 /\ task.queue_name = "Sales" /\ task.data = 1
    /\ ~get_caller_status(table, 1, "Sales").in_queue
    /\ get_caller_status(table, 2, "Sales").position = 1
    /\ get_caller_status(table, 3, "Sales").position = 2
    /\ get_queue_count(table, "Sales").count = 2

\* C14: summary lists exactly the queue names that hold at least one entry,
\* each once, with a count equal to the number of entries of that queue,
\* which is what count returns for it; count of a queue that is not listed
\* is 0, and after a leave that removed the last occupant of a queue the
\* queue is absent from the summary and its count is 0.
C14_SummaryListsOccupied ==
    LET summary == get_queues_summary(table)
    IN  /\ {e.queue_name : e \in summary}
              = {q \in Queues : \E r \in table : r.queue_name = q}
        /\ \A q \in Queues :
              Cardinality({e \in summary : e.queue_name = q})
                = IF \E r \in table : r.queue_name = q THEN 1 ELSE 0
        /\ \A e \in summary :
              /\ e.count >= 1
              /\ e.count = Cardinality({r \in table : r.queue_name = e.queue_name})
              /\ e.count = get_queue_count(table, e.queue_name).count
        /\ \A q \in Queues :
              (\A e \in summary : e.queue_name # q)
                 => get_queue_count(table, q).count = 0
        /\ (task.kind = "leave" /\ task.pc = "done" /\ task.message = RemovedMessage
               /\ \A r \in table : r.queue_name # task.queue_name)
              => /\ \A e \in summary : e.queue_name # task.queue_name
                 /\ get_queue_count(table, task.queue_name).count = 0

C14_Witness ==
    /\ task.kind = "leave" /\ task.pc = "done" /\ task.message = RemovedMessage
    /\ task.queue_name = "Sales"
    /\ get_queue_count(table, "Sales").count = 0
    /\ get_queues_summary(table) = {[queue_name |-> "Support", count |-> 2]}

\* C15: a subscriber that does not read its channel, or whose client is
\* gone, neither blocks nor fails a publish or a join or leave. The fan-out
\* step of a handler puts the payload into the channel of every subscriber,
\* whatever the channels already hold and whether or not the clients are
\* still connected, and the handler then ends with 200; every publish that
\* has started ends, and every join or leave the service has started is
\* answered, with no step required of any subscriber.
C15_SlowSubscriberNeverBlocks ==
    /\ [][ (task.pc = "publish" /\ task' # task)
             => /\ task'.pc = "done" /\ task'.status = 200
                /\ task'.sent = Subscribed
                /\ subscribers' = subscribers
                /\ \A c \in Subscribed :
                      /\ Len(chan'[c]) = Len(chan[c]) + 1
                      /\ chan'[c][Len(chan'[c])] = task.payload ]_vars
    /\ (task.pc = "publish") ~> (task.pc = "done")
    /\ (task.kind \in {"join", "leave"}) ~> (task = Idle)

\* A join has published to a channel that held an unread payload and whose
\* client is gone, and to the channel of a connected client.
C15_Witness ==
    \E c1, c2 \in Subscribed :
       /\ c1 # c2
       /\ conn[c1] = "gone" /\ Len(chan[c1]) = 2
       /\ conn[c2] = "open"
       /\ task.kind = "join" /\ task.pc = "done" /\ task.status = 200
       /\ task.sent = {c1, c2}
       /\ Newest(c1) = task.payload
       /\ Newest(c2) = task.payload

\* C16 as stated: a channel is in the subscriber list exactly while its
\* connection is open or gone and not yet cleaned up; the channel of a client
\* that is gone is subscribed only while its generator can still remove it,
\* and is eventually out of the subscriber list; and the step that removes a
\* channel changes neither the running handler, nor the table, nor the
\* channel, connection or place in the list of any other subscriber.
C16_Original ==
    /\ [](\A c \in DOMAIN chan : c \in Subscribed <=> conn[c] \in {"open", "gone"})
    /\ [](\A c \in DOMAIN chan :
             (conn[c] = "gone" /\ c \in Subscribed) => gen[c].pc # "dead")
    /\ \A c \in 1..NotifyChans :
          (conn[c] = "gone") ~> (conn[c] = "closed" /\ c \notin Subscribed)
    /\ [][ \A c \in DOMAIN chan :
              (c \in Subscribed /\ c \notin Subscribed')
                 => /\ conn[c] = "gone" /\ conn'[c] = "closed"
                    /\ task' = task /\ table' = table
                    /\ subscribers' = unsubscribe(subscribers, c)
                    /\ \A d \in DOMAIN chan \ {c} :
                          /\ chan'[d] = chan[d] /\ conn'[d] = conn[d]
                          /\ gen'[d] = gen[d]
                          /\ d \in Subscribed <=> d \in Subscribed' ]_vars

\* A client is gone, its generator was closed before its first turn, and its
\* channel is still subscribed and has been given the payload of a later join.
C16_Witness ==
    \E c \in Subscribed :
       /\ conn[c] = "gone" /\ gen[c].pc = "dead"
       /\ task.kind = "join" /\ task.pc = "done" /\ task.status = 200
       /\ c \in task.sent
       /\ Len(chan[c]) = 2
       /\ Newest(c) = task.payload

\* C17: subscribing, unsubscribing and the fan-out of a publish exclude one
\* another. The subscriber list holds no channel twice; a step that changes
\* the subscriber list puts no payload into any channel and is not taken
\* while a handler is at its fan-out; the fan-out step leaves the list as it
\* is and appends its payload once to the channel of every subscriber in
\* the list at that step, and changes no other channel.
C17_PublishExactlyOnce ==
    /\ [](\A i, j \in 1..Len(subscribers) :
             subscribers[i] = subscribers[j] => i = j)
    /\ [][ subscribers' # subscribers
             => /\ task.pc # "publish"
                /\ \A c \in DOMAIN chan : chan'[c] = chan[c] \/ chan'[c] = << >>
                /\ \/ \E c \in DOMAIN chan \ Subscribed :
                         subscribers' = subscribe(subscribers, c)
                   \/ \E c \in Subscribed :
                         subscribers' = unsubscribe(subscribers, c) ]_vars
    /\ [][ (task.pc = "publish" /\ task' # task)
             => /\ subscribers' = subscribers
                /\ \A c \in DOMAIN chan :
                      chan'[c] = IF c \in Subscribed
                                 THEN Append(chan[c], task.payload)
                                 ELSE chan[c]
                /\ task'.sent = Subscribed ]_vars

\* A leave has published to the one subscribed channel and to no other.
C17_Witness ==
    \E c1, c2 \in DOMAIN chan :
       /\ c1 # c2
       /\ Subscribed = {c1}
       /\ conn[c2] = "closed" /\ chan[c2] = << >>
       /\ task.kind = "leave" /\ task.pc = "done" /\ task.message = RemovedMessage
       /\ task.sent = {c1}
       /\ Newest(c1) = task.payload
       /\ Len(chan[c1]) = 2

\* C18: a request that mutates nothing publishes nothing, and a publish
\* follows the commit. A join or leave that ends at its store call (a
\* duplicate join, a leave that finds no entry, a failing store call)
\* changes neither the table nor any channel, and its handler has fetched
\* no summary and put no payload; a step that puts a payload into a channel
\* is the fan-out of a handler, and when that handler is a join the table
\* holds the joined row at the returned position, when it is a leave the
\* table no longer holds the leaver's entry.
C18_NoMutationNoPublish ==
    /\ [][ (task = Idle /\ task'.kind \in {"join", "leave"} /\ task'.pc = "done")
             => /\ table' = table
                /\ chan' = chan
                /\ \/ task'.status = 409 /\ task'.error = DuplicateError
                   \/ task'.status = 500 /\ task'.error = StoreError
                   \/ task'.status = 200 /\ task'.message = NotFoundMessage ]_vars
    /\ []( (task.kind \in {"join", "leave"} /\ task.pc = "done"
              /\ (task.status # 200 \/ task.message = NotFoundMessage))
             => /\ task.sent = {}
                /\ task.payload = EmptyObject
                /\ task.logged = "" )
    /\ [][ (\E c \in DOMAIN chan : Len(chan'[c]) > Len(chan[c]))
             => /\ task.pc = "publish"
                /\ task.error = ""
                /\ table' = table
                /\ task.kind = "join"
                      => /\ task.data >= 1
                         /\ Row(task.phone_number, task.queue_name, task.data)
                               \in table
                /\ task.kind = "leave"
                      => /\ task.data >= 1
                         /\ MatchRows(table, task.phone_number, task.queue_name)
                               = {} ]_vars

\* A duplicate join has been rejected while a client is subscribed; its
\* channel is empty.
C18_Witness ==
    /\ task.kind = "join" /\ task.pc = "done" /\ task.status = 409
    /\ Subscribed # {}
    /\ \A c \in Subscribed : conn[c] = "open" /\ chan[c] = << >>
    /\ MatchRows(table, task.phone_number, task.queue_name) # {}

\* The payload put last into the channel of c: the newest one waiting, or,
\* when none waits, the one the generator has taken and not yet yielded, or
\* else the one last yielded to the client.
LastPlaced(c) ==
    IF chan[c] # << >> THEN Newest(c)
    ELSE IF gen[c].pc = "checking" THEN gen[c].message
    ELSE recv[c]

\* C19: delivered summaries converge. Every payload a fan-out puts is the
\* summary of the table as it is at that step, it is put behind the payloads
\* already waiting, the generator takes payloads from the head and yields
\* the one it took before it takes the next, so no older summary follows a
\* newer one; and whenever no handler is running and no committed change has
\* gone unpublished since the last fan-out, the payload placed last in every
\* subscribed channel that was given one is the summary of the table.
C19_SummariesConverge ==
    /\ [][ (task.pc = "publish" /\ task' # task)
             => /\ task.payload = CurrentPayload
                /\ table' = table
                /\ \A c \in Subscribed :
                      /\ chan'[c] = chan[c] \o <<CurrentPayload>>
                      /\ recv'[c] = recv[c] /\ gen'[c] = gen[c] ]_vars
    /\ [][ \A c \in DOMAIN chan :
              /\ (gen'[c].pc = "checking" /\ gen[c].pc # "checking")
                    => /\ chan[c] # << >>
                       /\ gen'[c].message = Head(chan[c])
                       /\ chan'[c] = Tail(chan[c])
              /\ (recv'[c] # recv[c] /\ recv'[c] # NoPayload)
                    => /\ gen[c].pc = "checking" /\ gen'[c].pc = "waiting"
                       /\ recv'[c] = gen[c].message
                       /\ chan'[c] = chan[c] ]_vars
    /\ []( (task = Idle /\ ~stale)
             => \A c \in Subscribed :
                   LastPlaced(c) \in {NoPayload, CurrentPayload} )
    /\ []( (task.pc = "done" /\ task.logged = "" /\ task.sent # {})
             => \A c \in Subscribed : LastPlaced(c) = CurrentPayload )

\* Two summaries wait in a channel, the older one first, and the newer one
\* is the summary of the table.
C19_Witness ==
    \E c \in Subscribed :
       /\ task = Idle /\ ~stale
       /\ Len(chan[c]) = 2
       /\ chan[c][1] # chan[c][2]
       /\ chan[c][2] = CurrentPayload
       /\ recv[c] # NoPayload

====
